---- MODULE Spec2Model ----
(***************************************************************************)
(* asyncmongo.connection.Connection: one socket's lifecycle, the           *)
(* one-request-at-a-time guard, the getnonce/authenticate handshake that   *)
(* defers and replays the caller's request, and the connect/request timer. *)
(*                                                                         *)
(* The connection's handlers are operators from a state record to a state  *)
(* record; the field exc holds the exception a handler raised ("" when it  *)
(* returned).  A raise keeps every assignment made before it, as in the    *)
(* source.  The transport (stream), the io_loop's timers and the pool are  *)
(* collaborators: the model keeps of them only what the connection can     *)
(* observe (an open/closed stream with one read outstanding, the set of    *)
(* armed timers, whether cache() was called since the last checkout).      *)
(* Caller completions are assumed to return normally.                      *)
(***************************************************************************)
EXTENDS Integers, Sequences, FiniteSets

\* ------------------------------------------------------------------ bounds
\* caller messages created over a run (their request ids are 1..MaxSends)
MaxSends == 2
\* transport handles registered over a run (the constructor's included)
MaxConnects == 2

\* --------------------------------------------------------------- constants
None == 0
HEADER_SIZE == 16
OP_REPLY == 1
DEFAULT_TIMEOUT == 20
ASYNC_BACKEND_TORNADO == "tornado"
ASYNC_BACKEND_GLIB2 == "glib2"

VARIABLES
    \* constructor parameters, fixed after construction
    dbuser,             \* TRUE iff both dbuser and dbpass were supplied
    autoreconnect,
    backend_class,
    request_timeout,
    min_timeout,
    \* Connection fields
    stream,             \* transport handle: 1, 2, ... (a new one per connect)
    callback,           \* pending completion
    alive,
    authenticate,
    deferred_message,
    deferred_callback,
    usage_count,
    request_id,         \* in-flight correlator, None when cleared
    timeout,            \* timer handle the connection holds, None when cleared
    \* collaborators, as the connection observes them
    stream_state,       \* "connecting" | "open" | "broken" | "closed"
    pending_read,       \* the read submitted on the stream and not yet delivered
    timers,             \* timer handles armed in the io_loop
    next_timer,         \* next handle add_timeout returns
    cached,             \* pool.cache(self) was called since the last checkout
    \* observation
    wire,               \* this transport handle's writes and handshake replies
    calls,              \* how often each caller completion was invoked
    last_call,          \* the latest invocation of a caller completion
    at_call,            \* the connection as that invocation found it
    next_id,            \* request id of the next caller message
    op                  \* the handler that ran last, its arguments and outcome

conn == <<stream, callback, alive, authenticate, deferred_message,
          deferred_callback, usage_count, request_id, timeout>>
config == <<dbuser, autoreconnect, backend_class, request_timeout, min_timeout>>
env == <<stream_state, pending_read, timers, next_timer, cached>>
vars == <<config, conn, env, wire, calls, last_call, at_call, next_id, op>>

\* ------------------------------------------------------------------ values
NoCallback == [kind |-> "None", id |-> None]
StartAuthentication == [kind |-> "_start_authentication", id |-> None]
FinishAuthentication == [kind |-> "_finish_authentication", id |-> None]
UserCallback(i) == [kind |-> "user", id |-> i]

NoMessage == [kind |-> "None", id |-> None]
UserMessage(i) == [kind |-> "user", id |-> i]
\* message.query draws the request id of a command; two ids outside the
\* callers' range stand for the draws
GetNonceMessage == [kind |-> "getnonce", id |-> MaxSends + 1]
AuthenticateMessage == [kind |-> "authenticate", id |-> MaxSends + 2]

NoRead == [callback |-> "None", n |-> 0]
Read(cb, n) == [callback |-> cb, n |-> n]

\* documents of a reply; "absent" is a missing key
Absent == "absent"
\* a key that is present with the value None
Null == "null"
\* the truth value of dict.get(key)
Truthy(v) == v \notin {Absent, Null}
Doc(err, code, nonce, ok) == [err |-> err, code |-> code, nonce |-> nonce, ok |-> ok]
DocOk == Doc(Absent, Absent, Absent, "1")
DocNonce == Doc(Absent, Absent, "abc", "1")
DocNotOk == Doc(Absent, Absent, Absent, "0")
DocErr == Doc("E", "11000", Absent, "0")
DocPlain == Doc(Absent, Absent, Absent, Absent)
DocErrNull == Doc(Null, "11000", Absent, Absent)
\* reply bodies the peer can send
Body(malformed, docs) == [malformed |-> malformed, docs |-> docs]
Bodies == {Body(TRUE, <<>>), Body(FALSE, <<>>), Body(FALSE, <<DocOk>>),
           Body(FALSE, <<DocNonce>>), Body(FALSE, <<DocNotOk>>),
           Body(FALSE, <<DocErr>>), Body(FALSE, <<DocPlain>>),
           Body(FALSE, <<DocErrNull>>)}
\* reply headers the peer can send while request id rid is in flight: the
\* correlator echoes rid or another id
Headers(rid) == [length : {HEADER_SIZE, HEADER_SIZE + 20},
                 response_to : {rid, (rid % (MaxSends + 2)) + 1},
                 op_code : {OP_REPLY, OP_REPLY + 1}]

NoHeader == [length |-> 0, response_to |-> None, op_code |-> 0]
NoBody == Body(FALSE, <<>>)

NoResponse == [data |-> <<>>, number_returned |-> 0, null |-> TRUE]

\* entries of wire: message (kind, id) written with completion cb registered;
\* a reply body delivered to handshake continuation cb, ok when it came
\* without an error
Written(message, cb) ==
    [ev |-> "write", kind |-> message.kind, id |-> message.id, cb |-> cb.kind,
     ok |-> TRUE]
Replied(cb, err) ==
    [ev |-> "reply", kind |-> cb.kind, id |-> cb.id, cb |-> cb.kind,
     ok |-> (err = "")]
\* last_call: caller completion id invoked with (response, error); response
\* is "None" or "response"
Called(cb, response, err) ==
    [id |-> cb.id, response |-> IF response.null THEN "None" ELSE "response",
     err |-> err]
\* at_call: what a completion sees of the connection when it is invoked
Seen(s) == [callback |-> s.callback, request_id |-> s.request_id,
            cached |-> s.cached]

Cur ==
    [stream |-> stream, callback |-> callback, alive |-> alive,
     authenticate |-> authenticate, deferred_message |-> deferred_message,
     deferred_callback |-> deferred_callback, usage_count |-> usage_count,
     request_id |-> request_id, timeout |-> timeout,
     stream_state |-> stream_state, pending_read |-> pending_read,
     timers |-> timers, next_timer |-> next_timer, cached |-> cached,
     wire |-> wire, calls |-> calls, last_call |-> last_call,
     at_call |-> at_call, exc |-> ""]

Install(r) ==
    /\ stream' = r.stream
    /\ callback' = r.callback
    /\ alive' = r.alive
    /\ authenticate' = r.authenticate
    /\ deferred_message' = r.deferred_message
    /\ deferred_callback' = r.deferred_callback
    /\ usage_count' = r.usage_count
    /\ request_id' = r.request_id
    /\ timeout' = r.timeout
    /\ stream_state' = r.stream_state
    /\ pending_read' = r.pending_read
    /\ timers' = r.timers
    /\ next_timer' = r.next_timer
    /\ cached' = r.cached
    /\ wire' = r.wire
    /\ calls' = r.calls
    /\ last_call' = r.last_call
    /\ at_call' = r.at_call
    /\ UNCHANGED config

Raise(s, e) == [s EXCEPT !.exc = e]

\* ------------------------------------------------------------ collaborators
\* pool.cache(connection)
cache(s) == [s EXCEPT !.cached = TRUE]

\* stream.write(data): raises IOError on a stream that is broken or closed
stream_write_ok(s) == s.stream_state \in {"connecting", "open"}

\* stream.read(n, callback): raises IOError the same way
stream_read_ok(s) == s.stream_state \in {"connecting", "open"}

\* the stream ends in state st ("broken" or "closed").  A read that the peer
\* may already have satisfied is still delivered; on a stream that never
\* connected there is none
stream_end(s, st) ==
    [s EXCEPT !.stream_state = st,
              !.pending_read = IF s.stream_state = "connecting" THEN NoRead ELSE @]

\* io_loop.add_timeout(deadline, self._on_timeout)
add_timeout(s) ==
    [s EXCEPT !.timeout = s.next_timer,
              !.timers = @ \cup {s.next_timer},
              !.next_timer = @ + 1]

\* io_loop.remove_timeout(handle)
remove_timeout(s, h) == [s EXCEPT !.timers = @ \ {h}]

\* helpers._unpack_response(response, request_id)
unpack_fails(body) == body.malformed
_unpack_response(body) ==
    [data |-> body.docs, number_returned |-> Len(body.docs), null |-> FALSE]

\* ---------------------------------------------------------------- handlers
\* send_message's guard: a completion is already pending
busy_ignored(s) == FALSE
busy(s) == s.callback # NoCallback

\* send_message's branch: the handshake comes first
needs_authentication_never(s) == FALSE
needs_authentication(s) == s.authenticate

\* __connect: self.usage_count = 0
reset_usage_skipped(s) == s
reset_usage(s) == [s EXCEPT !.usage_count = 0]

\* __connect: credentials require the handshake
set_authenticate(s) ==
    IF dbuser THEN [s EXCEPT !.authenticate = TRUE] ELSE s

\* _send_message with no completion registered: write and forget
forget_not_cached(s) == [s EXCEPT !.request_id = None]
forget(s) == cache([s EXCEPT !.request_id = None])

_send_message(s, message) ==
    LET s1 == [s EXCEPT !.usage_count = @ + 1]
        s2 == [s1 EXCEPT !.request_id = message.id]
        s3 == [s2 EXCEPT !.wire = Append(@, Written(message, s2.callback))]
        failed(x) == Raise([x EXCEPT !.alive = FALSE], "IOError")
    IN  IF message = NoMessage THEN Raise(s1, "TypeError")
        ELSE IF ~stream_write_ok(s2) THEN failed(s2)
        ELSE IF s3.callback # NoCallback
             THEN IF ~stream_read_ok(s3) THEN failed(s3)
                  ELSE [s3 EXCEPT !.pending_read = Read("_parse_header", HEADER_SIZE)]
             ELSE forget(s3)

_start_authentication(s, response, error) ==
    IF error # "" THEN Raise(s, "AuthenticationError")
    ELSE IF response.data = <<>> THEN Raise(s, "IndexError")
    ELSE IF response.data[1].nonce = Absent THEN Raise(s, "KeyError")
    ELSE _send_message([s EXCEPT !.callback = FinishAuthentication],
                       AuthenticateMessage)

\* a reply with ok # 1 is taken to carry errmsg
_finish_authentication(s, response, error) ==
    LET cleared == [s EXCEPT !.deferred_message = NoMessage,
                             !.deferred_callback = NoCallback]
    IN  IF error # "" THEN Raise(cleared, "AuthenticationError")
        ELSE IF response.number_returned # 1 THEN Raise(s, "AssertionError")
        ELSE IF response.data[1].ok = Absent THEN Raise(s, "KeyError")
        ELSE IF response.data[1].ok # "1" THEN Raise(cleared, "AuthenticationError")
        ELSE _send_message([cleared EXCEPT !.callback = s.deferred_callback],
                           s.deferred_message)

\* self.__callback(response, error): the call of whatever completion is stored
Invoke(s, cb, response, error) ==
    LET s1 == IF cb.kind = "user"
              THEN [s EXCEPT !.calls[cb.id] = @ + 1,
                             !.last_call = Called(cb, response, error),
                             !.at_call = Seen(s)]
              ELSE s
    IN  IF cb = StartAuthentication
        THEN _start_authentication(s1, response, error)
        ELSE IF cb = FinishAuthentication
        THEN _finish_authentication(s1, response, error)
        ELSE s1

\* _close, _socket_close: self.__callback = None; self.__alive = False
mark_closed_keeps_callback(s) == [s EXCEPT !.alive = FALSE]
mark_closed(s) == [s EXCEPT !.callback = NoCallback, !.alive = FALSE]

_socket_close(s) ==
    LET s1 == IF s.callback # NoCallback
              THEN Invoke(s, s.callback, NoResponse, "InterfaceError")
              ELSE s
    IN  IF s1.exc # "" THEN s1
        ELSE cache(mark_closed(s1))

_close(s) ==
    LET s1 == IF s.callback # NoCallback
              THEN Invoke(s, s.callback, NoResponse, "InterfaceError")
              ELSE s
    IN  IF s1.exc # "" THEN s1
        ELSE stream_end(mark_closed(s1), "closed")

close(s) ==
    LET s1 == _close(s)
    IN  IF s1.exc # "" THEN s1 ELSE cache(s1)

\* connect_ok: whether the blocking connect of a non-tornado backend succeeds
__connect(s, connect_ok) ==
    LET s1 == reset_usage(s)
        fresh(x, st) == [x EXCEPT !.stream = @ + 1, !.stream_state = st,
                                  !.pending_read = NoRead, !.wire = <<>>]
    IN  IF backend_class = ASYNC_BACKEND_TORNADO
        THEN LET s2 == fresh(s1, "connecting")
                 s3 == IF min_timeout # 0 THEN add_timeout(s2) ELSE s2
             IN  set_authenticate([s3 EXCEPT !.alive = TRUE])
        ELSE IF ~connect_ok THEN Raise(s1, "InterfaceError")
        ELSE set_authenticate([fresh(s1, "open") EXCEPT !.alive = TRUE])

_on_timeout(s) == close([s EXCEPT !.timeout = None])

_on_connect(s) ==
    LET s1 == IF s.timeout # None
              THEN [remove_timeout(s, s.timeout) EXCEPT !.timeout = None]
              ELSE s
    IN  IF request_timeout # 0 THEN add_timeout(s1) ELSE s1

_get_nonce(s, cb) ==
    IF s.callback # NoCallback THEN Raise(s, "AssertionError")
    ELSE _send_message([s EXCEPT !.callback = cb], GetNonceMessage)

send_message(s, message, cb, connect_ok) ==
    LET go(x) ==
            IF needs_authentication(x)
            THEN _get_nonce([x EXCEPT !.deferred_message = message,
                                      !.deferred_callback = cb],
                            StartAuthentication)
            ELSE _send_message([x EXCEPT !.callback = cb], message)
    IN  IF busy(s) THEN Raise(s, "ProgrammingError")
        ELSE IF ~s.alive
        THEN IF autoreconnect
             THEN LET s1 == __connect(s, connect_ok)
                  IN  IF s1.exc # "" THEN s1 ELSE go(s1)
             ELSE Raise(s, "InterfaceError")
        ELSE go(s)

\* _parse_header: assert request_id == self.__request_id
ids_match_always(s, header) == TRUE
ids_match(s, header) == header.response_to = s.request_id

_parse_header(s, header) ==
    IF ~ids_match(s, header) THEN Raise(s, "AssertionError")
    ELSE IF header.op_code # OP_REPLY THEN Raise(s, "AssertionError")
    ELSE IF ~stream_read_ok(s)
    THEN Raise([s EXCEPT !.alive = FALSE], "IOError")
    ELSE [s EXCEPT !.pending_read =
              Read("_parse_response", header.length - HEADER_SIZE)]

\* response and response['data'] and data[0].get('err') and data[0].get('code')
is_integrity_error_never(response) == FALSE
is_integrity_error(response) ==
    /\ response.data # <<>>
    /\ Truthy(response.data[1].err)
    /\ Truthy(response.data[1].code)

\* _parse_response: capture and clear the completion and the in-flight id
take_callback_kept(s) == s
take_callback(s) == [s EXCEPT !.request_id = None, !.callback = NoCallback]

\* _parse_response: if not self.__deferred_message
defer_outstanding(s) == s.deferred_message # NoMessage

_parse_response(s, body) ==
    LET cb == s.callback
        s1 == take_callback(s)
        s2 == IF ~defer_outstanding(s1) THEN cache(s1) ELSE s1
        response == _unpack_response(body)
        s3(e) == IF cb.kind = "user" THEN s2
                 ELSE [s2 EXCEPT !.wire = Append(@, Replied(cb, e))]
        deliver(r, e) == Invoke(s3(e), cb, r, e)
    IN  IF s.callback = NoCallback THEN s
        ELSE IF unpack_fails(body) THEN deliver(NoResponse, "DecodeError")
        ELSE IF is_integrity_error(response)
        THEN deliver(response, "IntegrityError")
        ELSE deliver(response, "")

\* ------------------------------------------------------------------ actions
Op(name, r, cb) ==
    [name |-> name, exc |-> r.exc, cb |-> cb, header |-> NoHeader,
     body |-> NoBody]

\* the pool hands the connection to a caller: it leaves the idle cache
Checkout(s) == IF s.callback = NoCallback THEN [s EXCEPT !.cached = FALSE] ELSE s

Min(a, b) == IF a <= b THEN a ELSE b

\* connect_timeout and request_timeout: the default, or 0 for no timer; only
\* the tornado branch of __connect reads them
Timeouts(backend) ==
    IF backend = ASYNC_BACKEND_TORNADO THEN {0, DEFAULT_TIMEOUT}
    ELSE {DEFAULT_TIMEOUT}

Blank ==
    [stream |-> 0, callback |-> NoCallback, alive |-> FALSE,
     authenticate |-> FALSE, deferred_message |-> NoMessage,
     deferred_callback |-> NoCallback, usage_count |-> 0,
     request_id |-> None, timeout |-> None,
     stream_state |-> "closed", pending_read |-> NoRead,
     timers |-> {}, next_timer |-> 1, cached |-> FALSE,
     wire |-> <<>>, calls |-> [i \in 1..MaxSends |-> 0],
     last_call |-> Called(NoCallback, NoResponse, ""),
     at_call |-> Seen([callback |-> NoCallback, request_id |-> None,
                       cached |-> FALSE]),
     exc |-> ""]

\* the state __init__ leaves when its __connect() did not raise
Init ==
    /\ dbuser \in BOOLEAN
    /\ autoreconnect \in BOOLEAN
    /\ backend_class \in {ASYNC_BACKEND_TORNADO, ASYNC_BACKEND_GLIB2}
    /\ \E ct \in Timeouts(backend_class), rt \in Timeouts(backend_class) :
          /\ request_timeout = rt
          /\ min_timeout = Min(ct, rt)
    /\ LET r == __connect(Blank, TRUE)
       IN  /\ stream = r.stream
           /\ callback = r.callback
           /\ alive = r.alive
           /\ authenticate = r.authenticate
           /\ deferred_message = r.deferred_message
           /\ deferred_callback = r.deferred_callback
           /\ usage_count = r.usage_count
           /\ request_id = r.request_id
           /\ timeout = r.timeout
           /\ stream_state = r.stream_state
           /\ pending_read = r.pending_read
           /\ timers = r.timers
           /\ next_timer = r.next_timer
           /\ cached = r.cached
           /\ wire = r.wire
           /\ calls = r.calls
           /\ last_call = r.last_call
           /\ at_call = r.at_call
           /\ op = Op("__init__", r, "None")
    /\ next_id = 1

\* only the blocking connect of a non-tornado backend has an outcome here
ConnectOutcomes ==
    IF backend_class = ASYNC_BACKEND_TORNADO THEN {TRUE} ELSE BOOLEAN

\* a caller's send_message(message, callback); callback None is fire-and-forget
SendMessage ==
    /\ next_id <= MaxSends
    /\ (callback = NoCallback /\ ~alive /\ autoreconnect) => stream < MaxConnects
    /\ \E cb \in {UserCallback(next_id), NoCallback},
          connect_ok \in ConnectOutcomes :
          LET r == send_message(Checkout(Cur), UserMessage(next_id), cb,
                                connect_ok)
          IN  /\ Install(r)
              /\ next_id' = IF r.exc \in {"ProgrammingError", "InterfaceError"}
                            THEN next_id ELSE next_id + 1
              /\ op' = Op("send_message", r, cb.kind)

\* a caller's close()
Close ==
    LET r == close(Cur)
    IN  /\ Install(r)
        /\ op' = Op("close", r, "None")
        /\ UNCHANGED next_id

\* the stream reports the connect done
OnConnect ==
    /\ stream_state = "connecting"
    /\ LET r == _on_connect([Cur EXCEPT !.stream_state = "open"])
       IN  /\ Install(r)
           /\ op' = Op("_on_connect", r, "None")
           /\ UNCHANGED next_id

\* an armed timer expires
OnTimeout ==
    \E t \in timers :
        LET r == _on_timeout([Cur EXCEPT !.timers = @ \ {t}])
        IN  /\ Install(r)
            /\ op' = Op("_on_timeout", r, "None")
            /\ UNCHANGED next_id

\* the transport fails under the connection: from here on the stream refuses
\* writes and reads, and its close callback is still to come
StreamBreaks ==
    /\ stream_state \in {"connecting", "open"}
    /\ Install(stream_end(Cur, "broken"))
    /\ op' = Op("stream", Cur, "None")
    /\ UNCHANGED next_id

\* the peer closes the transport, or a broken transport reports its end
SocketClose ==
    /\ stream_state \in {"connecting", "open", "broken"}
    /\ LET r == _socket_close(stream_end(Cur, "closed"))
       IN  /\ Install(r)
           /\ op' = Op("_socket_close", r, "None")
           /\ UNCHANGED next_id

\* the 16 header bytes arrive
ParseHeader ==
    /\ pending_read.callback = "_parse_header"
    /\ stream_state # "connecting"
    /\ \E header \in Headers(request_id) :
          LET r == _parse_header([Cur EXCEPT !.pending_read = NoRead], header)
          IN  /\ Install(r)
              /\ op' = [Op("_parse_header", r, "None") EXCEPT !.header = header]
              /\ UNCHANGED next_id

\* the body bytes arrive
ParseResponse ==
    /\ pending_read.callback = "_parse_response"
    /\ \E body \in Bodies :
          LET r == _parse_response([Cur EXCEPT !.pending_read = NoRead], body)
          IN  /\ Install(r)
              /\ op' = [Op("_parse_response", r, "None") EXCEPT !.body = body]
              /\ UNCHANGED next_id

Next ==
    \/ SendMessage
    \/ Close
    \/ OnConnect
    \/ OnTimeout
    \/ StreamBreaks
    \/ SocketClose
    \/ ParseHeader
    \/ ParseResponse

Spec == Init /\ [][Next]_vars

\* the transport and the timers deliver what they hold: an armed timer
\* expires, a stream reports its connect, its data and its end
FairSpec ==
    /\ Spec
    /\ WF_vars(OnConnect)
    /\ WF_vars(OnTimeout)
    /\ WF_vars(SocketClose)
    /\ WF_vars(ParseHeader)
    /\ WF_vars(ParseResponse)

\* ------------------------------------------------------------------- claims
Last(q) == q[Len(q)]
IsWrite(e, kind) == e.ev = "write" /\ e.kind = kind
IsReply(e, kind) == e.ev = "reply" /\ e.kind = kind /\ e.ok
\* the step invoked the caller completion cb with (response, err)
InvokedWith(cb, response, err) ==
    /\ calls' = [calls EXCEPT ![cb.id] = @ + 1]
    /\ last_call' = [id |-> cb.id, response |-> response, err |-> err]
\* the step submitted no read
NoReadIssued == pending_read' \in {pending_read, NoRead}
\* the step wrote a caller's message that has no completion
WroteForget ==
    /\ wire' # wire
    /\ wire' # <<>>
    /\ IsWrite(Last(wire'), "user")
    /\ Last(wire').cb = "None"

\* C1: send_message on a connection whose completion is pending (a caller's
\* or a handshake continuation) raises ProgrammingError and changes nothing:
\* no write, no read, no reconnect, every connection field as it was.
C1_BusySendRejected ==
    [][(op'.name = "send_message" /\ callback # NoCallback) =>
          /\ op'.exc = "ProgrammingError"
          /\ UNCHANGED <<conn, env, wire, calls, last_call, next_id>>]_vars

C1_Witness ==
    /\ op.name = "send_message"
    /\ op.exc = "ProgrammingError"
    /\ callback = StartAuthentication

\* C2: on a credentialed connection a caller's message is on the wire of a
\* transport handle only right after getnonce was written, its reply came
\* without error, authenticate was written and its reply came without error,
\* in that order on that handle; and a caller completion that receives a
\* response receives the reply to its own message.
C2_HandshakeFirst ==
    dbuser =>
        \A i \in 1..Len(wire) :
            IsWrite(wire[i], "user") =>
                /\ i >= 5
                /\ IsWrite(wire[i - 4], "getnonce")
                /\ IsReply(wire[i - 3], "_start_authentication")
                /\ IsWrite(wire[i - 2], "authenticate")
                /\ IsReply(wire[i - 1], "_finish_authentication")

C2_OwnReply ==
    \A k \in 1..MaxSends :
        (dbuser /\ calls'[k] # calls[k] /\ last_call'.response = "response") =>
            /\ request_id = k
            /\ callback = UserCallback(k)
            /\ \E i \in 1..Len(wire) : IsWrite(wire[i], "user") /\ wire[i].id = k
            /\ last_call'.id = k

C2_HandshakeBeforeUserMessage == []C2_HandshakeFirst /\ [][C2_OwnReply]_vars

C2_Witness ==
    /\ dbuser
    /\ stream = 2
    /\ op.name = "_parse_response"
    /\ \E k \in 1..MaxSends :
          /\ calls[k] = 1
          /\ last_call = [id |-> k, response |-> "response", err |-> ""]
          /\ \E i \in 1..Len(wire) : IsWrite(wire[i], "user") /\ wire[i].id = k

\* C3: on a credentialed connection the first caller message written on a
\* transport handle is preceded by exactly two sub-requests (getnonce,
\* authenticate), and after a caller message was written on a handle no
\* sub-request is written on it again.
C3_TwoSubRequestsThenNone ==
    dbuser =>
        \A i \in 1..Len(wire) :
            IsWrite(wire[i], "user") =>
                /\ \A j \in (i + 1)..Len(wire) :
                      wire[j].ev = "write" => wire[j].kind = "user"
                /\ (\A j \in 1..(i - 1) : ~IsWrite(wire[j], "user")) =>
                      Cardinality({j \in 1..(i - 1) : wire[j].ev = "write"}) = 2

\* C4: after _on_timeout ran the connection is not alive, holds no timer
\* reference, and a completion that was pending was invoked with
\* InterfaceError and is pending no more.
C4_TimeoutCloses ==
    [][op'.name = "_on_timeout" =>
          /\ ~alive'
          /\ timeout' = None
          /\ callback' = NoCallback
          /\ callback.kind = "user" =>
                InvokedWith(callback, "None", "InterfaceError")]_vars

\* C5: after _socket_close ran the connection is not alive, is in the pool's
\* cache, and a completion that was pending was invoked with InterfaceError
\* and cleared.
C5_PeerCloseFailsAndCaches ==
    [][op'.name = "_socket_close" =>
          /\ ~alive'
          /\ cached'
          /\ callback' = NoCallback
          /\ callback.kind = "user" =>
                InvokedWith(callback, "None", "InterfaceError")]_vars

\* C6: a connection that a failure marked not alive holds no caller
\* completion that was never invoked.
C6_FailureReachesCompletion ==
    ~alive => ~(callback.kind = "user" /\ calls[callback.id] = 0)

\* C7 as stated: send_message on a not-alive connection with nothing pending
\* reconnects and dispatches when autoreconnect is on, and raises
\* InterfaceError, writing and recording nothing, when it is off.
Reconnected(cb) ==
    /\ stream' = stream + 1
    /\ usage_count' = 1
    /\ authenticate' = dbuser
    /\ alive' \/ op'.exc = "IOError"
    /\ IF dbuser
       THEN /\ deferred_message' = UserMessage(next_id)
            /\ deferred_callback'.kind = cb
            /\ op'.exc = "" => wire' = <<Written(GetNonceMessage, StartAuthentication)>>
       ELSE /\ callback'.kind = cb
            /\ op'.exc = "" => wire' = <<Written(UserMessage(next_id), callback')>>
Refused ==
    /\ op'.exc = "InterfaceError"
    /\ ~alive'
    /\ UNCHANGED <<stream, callback, deferred_message, deferred_callback, wire,
                   pending_read, request_id>>

C7_ReconnectOrRefuse ==
    [][(op'.name = "send_message" /\ ~alive /\ callback = NoCallback) =>
          IF autoreconnect THEN Reconnected(op'.cb) ELSE Refused]_vars

\* C7 amended: with autoreconnect on, send_message attempts the reconnect; when
\* the transport opens it dispatches on the new handle with usage_count 1,
\* and when the connect fails it raises InterfaceError having reset
\* usage_count, written and recorded nothing.  With autoreconnect off it
\* raises InterfaceError, writing and recording nothing.
C7_ReconnectAttemptOrRefuse ==
    [][(op'.name = "send_message" /\ ~alive /\ callback = NoCallback) =>
          IF autoreconnect
          THEN \/ Reconnected(op'.cb)
               \/ Refused /\ usage_count' = 0
                          /\ backend_class # ASYNC_BACKEND_TORNADO
          ELSE Refused /\ usage_count' = usage_count]_vars

C7_Witness ==
    /\ op.name = "send_message"
    /\ op.exc = ""
    /\ stream = 2
    /\ usage_count = 1
    /\ alive
    /\ dbuser
    /\ wire = <<Written(GetNonceMessage, StartAuthentication)>>

\* C8 as stated: every send_message(message, None) that is accepted issues
\* no read, caches the connection, and leaves no in-flight id and no pending
\* completion.
C8_NullSendCaches ==
    [][(op'.name = "send_message" /\ op'.cb = "None" /\ op'.exc = "") =>
          /\ NoReadIssued
          /\ cached'
          /\ request_id' = None
          /\ callback' = NoCallback]_vars

\* C8 amended: every step that writes a caller's message with no completion
\* (send_message itself on a connection without credentials, the end of the
\* handshake on one with) issues no read, caches the connection, and leaves
\* no in-flight id and no pending completion; and on a connection without
\* credentials this is every accepted send_message(message, None).
C8_ForgetWriteCaches ==
    [][/\ WroteForget =>
             /\ NoReadIssued
             /\ cached'
             /\ request_id' = None
             /\ callback' = NoCallback
       /\ (op'.name = "send_message" /\ op'.cb = "None" /\ op'.exc = ""
             /\ callback = NoCallback /\ ~dbuser) => WroteForget]_vars

C8_Witness ==
    /\ dbuser
    /\ op.name = "_parse_response"
    /\ wire # <<>>
    /\ IsWrite(Last(wire), "user")
    /\ Last(wire).cb = "None"
    /\ cached
    /\ request_id = None

\* C9: a connection that accepted a request is eventually cached.
C9_EventuallyCached ==
    (op.name = "send_message" /\ op.exc = "") ~> cached

\* C10: at most one timer is armed.
C10_OneTimer == Cardinality(timers) <= 1

\* C11: _parse_header submits a body read only for a header whose correlator
\* equals the in-flight request id and whose opcode is the reply opcode, and
\* then for length - 16 bytes; on a correlator mismatch it raises before any
\* body read is submitted and before any completion is invoked.
C11_BodyReadOnlyOnMatch ==
    [][op'.name = "_parse_header" =>
          /\ pending_read' # NoRead =>
                /\ op'.header.response_to = request_id
                /\ op'.header.op_code = OP_REPLY
                /\ pending_read' = Read("_parse_response",
                                        op'.header.length - HEADER_SIZE)
          /\ op'.header.response_to # request_id =>
                /\ op'.exc = "AssertionError"
                /\ pending_read' = NoRead
                /\ UNCHANGED <<calls, last_call, wire, callback, request_id>>]_vars

C11_Witness ==
    /\ op.name = "_parse_header"
    /\ op.header.response_to # request_id
    /\ op.header.op_code = OP_REPLY
    /\ op.exc = "AssertionError"
    /\ callback.kind = "user"
    /\ pending_read = NoRead

\* C12: after _parse_header received a header whose correlator is not the
\* in-flight request id, the connection is not alive.
C12_MismatchMarksNotAlive ==
    [][(op'.name = "_parse_header" /\ op'.header.response_to # request_id) =>
          ~alive']_vars

\* the _parse_response step invoked the pending completion once, with
\* (None, err) for a decode error and (response, err) otherwise: a caller's
\* completion is counted, a handshake continuation leaves its reply on the
\* wire (followed by the write it makes, if it makes one)
DeliveredOnce(err) ==
    IF callback.kind = "user"
    THEN /\ InvokedWith(callback,
                        IF err = "DecodeError" THEN "None" ELSE "response", err)
         /\ wire' = wire
    ELSE /\ UNCHANGED <<calls, last_call>>
         /\ Len(wire') \in {Len(wire) + 1, Len(wire) + 2}
         /\ SubSeq(wire', 1, Len(wire)) = wire
         /\ wire'[Len(wire) + 1] = Replied(callback, err)
         /\ Len(wire') = Len(wire) + 2 => wire'[Len(wire')].ev = "write"
\* a body delivered while no completion is pending changes nothing
StrayBody ==
    UNCHANGED <<conn, stream_state, timers, next_timer, cached, wire, calls,
                last_call, at_call>>
\* the error a body calls for when an err and a code key count as soon as
\* the first document carries them
CarriedError(body) ==
    IF body.malformed THEN "DecodeError"
    ELSE IF /\ body.docs # <<>>
            /\ body.docs[1].err # Absent
            /\ body.docs[1].code # Absent
    THEN "IntegrityError"
    ELSE ""
\* the error a body calls for when they count only with a value that is true
ValuedError(body) ==
    IF body.malformed THEN "DecodeError"
    ELSE IF /\ body.docs # <<>>
            /\ body.docs[1].err \notin {Absent, Null}
            /\ body.docs[1].code \notin {Absent, Null}
    THEN "IntegrityError"
    ELSE ""

\* C13 as stated: a reply body delivered while a completion is pending invokes
\* that completion exactly once: with (None, decode error) when decoding
\* fails, with (response, IntegrityError) when the first document carries an
\* err and a code field, with (response, no error) otherwise; a body delivered
\* while no completion is pending changes nothing.
C13_ReplyOutcome ==
    [][op'.name = "_parse_response" =>
          IF callback = NoCallback THEN StrayBody
          ELSE DeliveredOnce(CarriedError(op'.body))]_vars

\* C13 amended: the same, with IntegrityError exactly when the first
\* document's err and code both have a true value (a document whose err is
\* None, as in a successful getlasterror reply, is delivered with no error).
C13_ReplyOutcomeByValue ==
    [][op'.name = "_parse_response" =>
          IF callback = NoCallback THEN StrayBody
          ELSE DeliveredOnce(ValuedError(op'.body))]_vars

C13_Witness ==
    /\ op.name = "_parse_response"
    /\ op.body = Body(FALSE, <<DocErr>>)
    /\ callback = NoCallback
    /\ \E k \in 1..MaxSends :
          /\ calls[k] = 1
          /\ last_call = [id |-> k, response |-> "response",
                          err |-> "IntegrityError"]

\* the last thing on this transport handle is a request written with
\* completion cb registered, and a read for its reply is outstanding (or the
\* transport broke and has not reported its end yet)
Awaited(cb) ==
    /\ wire # <<>>
    /\ Last(wire).ev = "write"
    /\ Last(wire).cb = cb.kind
    /\ pending_read # NoRead \/ stream_state = "broken"

\* C14: a completion is pending if and only if the connection is alive and a
\* request (a caller's, getnonce or authenticate) written on its transport
\* with that completion awaits its reply; a connection that is not alive
\* holds no pending completion.
C14_PendingIffAwaited ==
    /\ callback # NoCallback => (alive /\ Awaited(callback))
    /\ (alive /\ \E cb \in {callback, StartAuthentication, FinishAuthentication,
                           UserCallback(request_id)} :
                     cb # NoCallback /\ Awaited(cb) /\ stream_state = "open")
          => callback # NoCallback

\* C15: the deferred (message, completion) pair is non-empty only while the
\* connection is alive and a getnonce or authenticate sub-request awaits its
\* reply: once the handshake has ended, by success or by any failure, the
\* pair is empty.
C15_DeferredOnlyDuringHandshake ==
    (deferred_message # NoMessage \/ deferred_callback # NoCallback) =>
        /\ callback \in {StartAuthentication, FinishAuthentication}
        /\ alive
        /\ Awaited(callback)

\* C16: when _parse_response delivers a reply to a caller's completion with
\* no deferred request outstanding, the completion is invoked on a connection
\* whose pending completion and in-flight id are already cleared and which
\* is already in the pool's cache; a send_message made at that point, or
\* right after the step, is not refused as busy.
C16_ClearedAndCachedBeforeCompletion ==
    [][/\ (/\ op'.name = "_parse_response"
           /\ callback.kind = "user"
           /\ deferred_message = NoMessage) =>
              /\ calls'[callback.id] = calls[callback.id] + 1
              /\ at_call' = [callback |-> NoCallback, request_id |-> None,
                             cached |-> TRUE]
              /\ callback' = NoCallback
       /\ (/\ op.name = "_parse_response"
           /\ at_call.callback = NoCallback
           /\ callback = NoCallback
           /\ op'.name = "send_message") => op'.exc # "ProgrammingError"]_vars

C16_Witness ==
    /\ op.name = "send_message"
    /\ op.exc = ""
    /\ callback = UserCallback(2)
    /\ calls[1] = 1
    /\ last_call = [id |-> 1, response |-> "response", err |-> ""]
    /\ at_call = [callback |-> NoCallback, request_id |-> None, cached |-> TRUE]
    /\ stream = 1

\* C17: a connection in the middle of the handshake (getnonce or authenticate
\* awaits its reply) is not in the pool's cache, and the reply to getnonce or
\* authenticate puts it there only by writing the caller's fire-and-forget
\* message at the end of the handshake.
C17_MidHandshake ==
    callback \in {StartAuthentication, FinishAuthentication} => ~cached

C17_ReplyDoesNotCache ==
    (/\ op'.name = "_parse_response"
     /\ callback \in {StartAuthentication, FinishAuthentication}
     /\ cached') => WroteForget

C17_NotCachedDuringHandshake ==
    []C17_MidHandshake /\ [][C17_ReplyDoesNotCache]_vars

\* the step delivered a failure to the handshake: a close, a timeout or the
\* peer's close while a sub-request was awaited, a sub-request's reply that
\* came with an error, or an authenticate reply with ok other than 1
HandshakeFailed ==
    /\ callback \in {StartAuthentication, FinishAuthentication}
    /\ \/ op'.name \in {"close", "_on_timeout", "_socket_close"}
       \/ /\ op'.name = "_parse_response"
          /\ \/ ValuedError(op'.body) # ""
             \/ /\ callback = FinishAuthentication
                /\ op'.body = Body(FALSE, <<DocNotOk>>)
\* the handshake of request k, the latest one accepted, has just raised
\* AuthenticationError
AuthenticationFailed(k) ==
    /\ op.exc = "AuthenticationError"
    /\ next_id = k + 1
\* caller message k is on this transport handle's wire
OnWire(k) ==
    \E i \in 1..Len(wire) : IsWrite(wire[i], "user") /\ wire[i].id = k

\* C18: a handshake that fails fails with AuthenticationError, and the
\* message of a request whose handshake failed is never written and its
\* completion never invoked.
C18_FailedStaysFailed ==
    \A k \in 1..MaxSends :
        [](AuthenticationFailed(k) => [](~OnWire(k) /\ calls[k] = 0))

C18_HandshakeFailure ==
    /\ [][HandshakeFailed => op'.exc = "AuthenticationError"]_vars
    /\ C18_FailedStaysFailed

\* C19: once the connect has completed and the accepted requests are done
\* (nothing pending, nothing awaited, the connection alive and back in the
\* pool's cache), no timer is armed that could fire and close the connection.
C19_IdleHasNoTimer ==
    (/\ stream_state = "open"
     /\ alive
     /\ callback = NoCallback
     /\ pending_read = NoRead
     /\ cached) => timers = {}

====
